---- MODULE Spec2Model ----
(***************************************************************************)
(* The diagram script diagrams/openclaw_diagram.py as a state machine.     *)
(*                                                                         *)
(* The script is one straight-line run: it assigns graph_attr, opens a     *)
(* Diagram block, constructs 15 nodes inside nested Cluster blocks, writes *)
(* 10 data-flow statements built from the >> and << operators, and leaves  *)
(* the Diagram block, at which point the diagram is rendered.  One         *)
(* statement (or, inside a data-flow statement, one operator application)  *)
(* is one step.  The meaning of the constructors and of >> and << is that  *)
(* of the diagrams package the script imports on lines 1-9.                *)
(***************************************************************************)
EXTENDS Integers, Sequences, FiniteSets, TLC

VARIABLES
    pc,             \* index in Program of the statement to execute next
    tok,            \* inside a data-flow statement: operands consumed so far
    acc,            \* value of the data-flow expression evaluated so far
    graph_attr,     \* the module-level dict of line 14 (set of key/value pairs)
    diagram,        \* the Diagram object of line 20
    bindings,       \* variable name -> node handle, for the names assigned so far
    nodes,          \* node handle -> [label, cls], the nodes constructed so far
    clusters,       \* cluster handle -> label, the clusters constructed so far
    clusterStack,   \* the Cluster blocks that are open, outermost first
    in_cluster,     \* pairs <<cluster handle, node handle>>: cluster owns node
    subcluster,     \* pairs <<parent cluster handle, child cluster handle>>
    edges,          \* the diagram's edge list, in the order of construction
    status,         \* "building", "rendered" or "error"
    renderAttempts, \* number of times the render step was started
    dotInstalled    \* environment: is the layout engine available

vars == <<pc, tok, acc, graph_attr, diagram, bindings, nodes, clusters,
          clusterStack, in_cluster, subcluster, edges, status,
          renderAttempts, dotInstalled>>

graph == <<nodes, clusters, in_cluster, subcluster, edges>>

-----------------------------------------------------------------------------
(* The statements of the script.                                           *)

Stmt(line, kind, var, cls, label, chain) ==
    [line |-> line, kind |-> kind, var |-> var, cls |-> cls,
     label |-> label, chain |-> chain]

Assign(line, var)           == Stmt(line, "assign", var, "", "", <<>>)
WithDiagram(line, label)    == Stmt(line, "with_diagram", "", "Diagram", label, <<>>)
EndDiagram(line)            == Stmt(line, "end_diagram", "", "", "", <<>>)
WithCluster(line, label)    == Stmt(line, "with_cluster", "", "Cluster", label, <<>>)
EndCluster(line)            == Stmt(line, "end_cluster", "", "", "", <<>>)
NewNode(line, var, cls, label) == Stmt(line, "node", var, cls, label, <<>>)
Flow(line, chain)           == Stmt(line, "flow", "", "", "", chain)

\* An operand of a data-flow statement with the operator written before it:
\* a variable name, or an Edge(...) call with its keyword arguments.
Name(op, name) ==
    [op |-> op, kind |-> "name", name |-> name,
     label |-> "", style |-> "", color |-> ""]
EdgeCall(op, label, style, color) ==
    [op |-> op, kind |-> "Edge", name |-> "",
     label |-> label, style |-> style, color |-> color]

Prologue ==
    << Assign(14, "graph_attr"),
       WithDiagram(20, "OpenClaw Security Architecture") >>

Declarations ==
    << NewNode(22, "user", "User", "User"),
       WithCluster(24, "AWS Cloud"),
         WithCluster(27, "Ingress Layer"),
           NewNode(28, "waf", "WAF", "WAF\nRate Limit + Rules"),
           NewNode(29, "cloudfront", "CloudFront", "CloudFront\nHTTPS Only"),
         EndCluster(29),
         WithCluster(31, "VPC"),
           NewNode(34, "dns_fw", "Route53", "DNS Firewall\nAllowlist Only"),
           WithCluster(36, "Private Subnet"),
             NewNode(38, "ec2", "EC2", "EC2\nOpenClaw Gateway"),
             NewNode(39, "docker", "Docker", "Docker\nAgent Sandboxes"),
             NewNode(42, "iam", "IAMRole", "IAM Role\nLeast Privilege"),
             NewNode(43, "secrets", "SecretsManager", "Secrets Mgr\nAPI Keys"),
           EndCluster(43),
         EndCluster(43),
         WithCluster(46, "Security Monitoring"),
           NewNode(47, "inspector", "Inspector", "Inspector\nVuln Scanning"),
           NewNode(48, "detective", "Detective", "GuardDuty\nThreat Detection"),
           NewNode(49, "cloudwatch", "Cloudwatch", "CloudWatch\nAlarms + Logs"),
         EndCluster(49),
         WithCluster(52, "Cloud Janitor"),
           NewNode(53, "ssm", "SystemsManager", "SSM\nPatch Manager"),
           NewNode(54, "eventbridge", "Eventbridge", "EventBridge\nScheduler"),
           NewNode(55, "janitor_lambda", "Lambda", "Lambda\nCleanup Tasks"),
         EndCluster(55),
         NewNode(58, "external", "Python", "External APIs\nOpenAI / Anthropic"),
       EndCluster(58) >>

Flows ==
    << Flow(63, << Name("", "user"), EdgeCall(">>", "HTTPS", "", ""),
                   Name(">>", "waf"), Name(">>", "cloudfront"),
                   Name(">>", "ec2") >>),
       Flow(66, << Name("", "ec2"), EdgeCall(">>", "spawn", "", ""),
                   Name(">>", "docker") >>),
       Flow(67, << Name("", "ec2"), EdgeCall(">>", "", "dotted", ""),
                   Name(">>", "iam") >>),
       Flow(68, << Name("", "ec2"), EdgeCall("<<", "", "", "darkgreen"),
                   Name("<<", "secrets") >>),
       Flow(71, << Name("", "docker"), Name(">>", "dns_fw"),
                   Name(">>", "external") >>),
       Flow(74, << Name("", "ec2"), EdgeCall(">>", "", "dashed", "gray"),
                   Name(">>", "inspector") >>),
       Flow(75, << Name("", "ec2"), EdgeCall(">>", "", "dashed", "gray"),
                   Name(">>", "detective") >>),
       Flow(76, << Name("", "ec2"), EdgeCall(">>", "", "dashed", "gray"),
                   Name(">>", "cloudwatch") >>),
       Flow(79, << Name("", "eventbridge"), Name(">>", "janitor_lambda") >>),
       Flow(80, << Name("", "ssm"), Name(">>", "ec2") >>) >>

Epilogue == << EndDiagram(80) >>

\* A script whose data-flow statements come before the node constructions.
ProgramFlowsFirst == Prologue \o Flows \o Declarations \o Epilogue

\* A script whose data-flow statements are dedented out of the Diagram block.
ProgramFlowsOutside == Prologue \o Declarations \o Epilogue \o Flows

Program == Prologue \o Declarations \o Flows \o Epilogue

Done == pc > Len(Program)

Cur == Program[pc]

At(kind) == ~Done /\ Cur.kind = kind

-----------------------------------------------------------------------------
(* Values.                                                                 *)

NoNode == 0

\* What a (sub)expression of a data-flow statement evaluates to: nothing yet,
\* a node, or an Edge object (node = NoNode until an operator gives it one).
NoValue ==
    [kind |-> "none", node |-> NoNode, forward |-> FALSE, reverse |-> FALSE,
     label |-> "", style |-> "", color |-> ""]
NodeValue(n) ==
    [kind |-> "node", node |-> n, forward |-> FALSE, reverse |-> FALSE,
     label |-> "", style |-> "", color |-> ""]
EdgeValue(n, forward, reverse, label, style, color) ==
    [kind |-> "edge", node |-> n, forward |-> forward, reverse |-> reverse,
     label |-> label, style |-> style, color |-> color]

\* The record appended to the diagram's edge list by a connection from src to
\* dst through the Edge object e.
EdgeRecord(src, dst, e) ==
    [src |-> src, dst |-> dst, forward |-> e.forward, reverse |-> e.reverse,
     label |-> e.label, style |-> e.style, color |-> e.color]

NoDiagram == [name |-> "", show |-> FALSE, direction |-> "", graph_attr |-> {},
              open |-> FALSE]

Range(s) == {s[i] : i \in DOMAIN s}

\* The clusters that become the owner of a node or cluster constructed while
\* the blocks of stack are open: the innermost one, none outside every block.
OwnersAllOpen(stack) == Range(stack)

OwnersOutermost(stack) == IF stack = <<>> THEN {} ELSE {stack[1]}

Owners(stack) == IF stack = <<>> THEN {} ELSE {stack[Len(stack)]}

\* What a connection from src to dst evaluates to: the destination, so that
\* a chain goes on from it.
ConnectResultSelf(src, dst) == NodeValue(src)

ConnectResult(src, dst) == NodeValue(dst)

-----------------------------------------------------------------------------
Init ==
    /\ pc = 1
    /\ tok = 0
    /\ acc = NoValue
    /\ graph_attr = {}
    /\ diagram = NoDiagram
    /\ bindings = <<>>
    /\ nodes = <<>>
    /\ clusters = <<>>
    /\ clusterStack = <<>>
    /\ in_cluster = {}
    /\ subcluster = {}
    /\ edges = <<>>
    /\ status = "building"
    /\ renderAttempts = 0
    /\ dotInstalled \in BOOLEAN

Running == status # "error" /\ ~Done

\* line 14-18
AssignGraphAttr ==
    /\ Running /\ At("assign")
    /\ graph_attr' = { <<"fontsize", "16">>, <<"bgcolor", "white">>,
                       <<"splines", "ortho">> }
    /\ pc' = pc + 1
    /\ UNCHANGED <<tok, acc, diagram, bindings, nodes, clusters, clusterStack,
                   in_cluster, subcluster, edges, status, renderAttempts,
                   dotInstalled>>

\* line 20, entering the block
EnterDiagram ==
    /\ Running /\ At("with_diagram")
    /\ diagram' = [name |-> Cur.label, show |-> FALSE, direction |-> "TB",
                   graph_attr |-> graph_attr, open |-> TRUE]
    /\ pc' = pc + 1
    /\ UNCHANGED <<tok, acc, graph_attr, bindings, nodes, clusters,
                   clusterStack, in_cluster, subcluster, edges, status,
                   renderAttempts, dotInstalled>>

\* var = Cls("label"): a new node, owned by the innermost open cluster
ConstructNode ==
    /\ Running /\ At("node")
    /\ diagram.open
    /\ LET n == Cardinality(DOMAIN nodes) + 1 IN
        /\ nodes' = nodes @@ (n :> [label |-> Cur.label, cls |-> Cur.cls])
        /\ bindings' = (Cur.var :> n) @@ bindings
        /\ in_cluster' = in_cluster \cup (Owners(clusterStack) \X {n})
    /\ pc' = pc + 1
    /\ UNCHANGED <<tok, acc, graph_attr, diagram, clusters, clusterStack,
                   subcluster, edges, status, renderAttempts, dotInstalled>>

\* with Cluster("label"): a new cluster, child of the innermost open cluster
EnterCluster ==
    /\ Running /\ At("with_cluster")
    /\ diagram.open
    /\ LET c == Cardinality(DOMAIN clusters) + 1 IN
        /\ clusters' = clusters @@ (c :> Cur.label)
        /\ subcluster' = subcluster \cup (Owners(clusterStack) \X {c})
        /\ clusterStack' = Append(clusterStack, c)
    /\ pc' = pc + 1
    /\ UNCHANGED <<tok, acc, graph_attr, diagram, bindings, nodes, in_cluster,
                   edges, status, renderAttempts, dotInstalled>>

\* the end of a Cluster block
ExitCluster ==
    /\ Running /\ At("end_cluster")
    /\ clusterStack # <<>>
    /\ clusterStack' = SubSeq(clusterStack, 1, Len(clusterStack) - 1)
    /\ pc' = pc + 1
    /\ UNCHANGED <<tok, acc, graph_attr, diagram, bindings, nodes, clusters,
                   in_cluster, subcluster, edges, status, renderAttempts,
                   dotInstalled>>

\* What the operator op makes of an Edge object e: >> marks it forward, <<
\* marks it reverse; a mark once set stays.
Marked(e, op) ==
    EdgeValue(e.node, e.forward \/ op = ">>", e.reverse \/ op = "<<",
              e.label, e.style, e.color)

Next1 == Cur.chain[tok + 1]

LastOperand == tok + 1 = Len(Cur.chain)

\* The end of a hop: on to the next operand, or to the next statement when
\* the operand was the last one (the statement's value is dropped).
Advance(value) ==
    IF LastOperand
    THEN pc' = pc + 1 /\ tok' = 0 /\ acc' = NoValue
    ELSE pc' = pc /\ tok' = tok + 1 /\ acc' = value

\* a data-flow statement begins: its first operand, a node variable, is read
StartFlow ==
    /\ Running /\ At("flow")
    /\ tok = 0
    /\ Cur.chain[1].kind = "name"
    /\ Cur.chain[1].name \in DOMAIN bindings
    /\ acc' = NodeValue(bindings[Cur.chain[1].name])
    /\ tok' = 1
    /\ UNCHANGED <<pc, graph_attr, diagram, bindings, nodes, clusters,
                   clusterStack, in_cluster, subcluster, edges, status,
                   renderAttempts, dotInstalled>>

\* node >> Edge(...) or node << Edge(...): the Edge object is constructed,
\* marked, and takes the node as its origin; no edge is added yet
NodeToEdge ==
    /\ Running /\ At("flow")
    /\ tok >= 1 /\ tok < Len(Cur.chain)
    /\ acc.kind = "node" /\ Next1.kind = "Edge"
    /\ Advance(Marked(EdgeValue(acc.node, FALSE, FALSE, Next1.label,
                                Next1.style, Next1.color), Next1.op))
    /\ UNCHANGED <<graph_attr, diagram, bindings, nodes, clusters,
                   clusterStack, in_cluster, subcluster, edges, status,
                   renderAttempts, dotInstalled>>

\* edge >> node or edge << node: the Edge object is marked and connects its
\* origin to the node, which adds one edge carrying the object's attributes
EdgeToNode ==
    /\ Running /\ At("flow")
    /\ tok >= 1 /\ tok < Len(Cur.chain)
    /\ acc.kind = "edge" /\ Next1.kind = "name"
    /\ Next1.name \in DOMAIN bindings
    /\ LET e   == Marked(acc, Next1.op)
           dst == bindings[Next1.name]
       IN  IF e.node # NoNode
           THEN /\ edges' = Append(edges, EdgeRecord(e.node, dst, e))
                /\ Advance(ConnectResult(e.node, dst))
           ELSE /\ edges' = edges
                /\ Advance(EdgeValue(dst, e.forward, e.reverse, e.label,
                                     e.style, e.color))
    /\ UNCHANGED <<graph_attr, diagram, bindings, nodes, clusters,
                   clusterStack, in_cluster, subcluster, status,
                   renderAttempts, dotInstalled>>

\* node >> node or node << node: one edge without attributes is added
NodeToNode ==
    /\ Running /\ At("flow")
    /\ tok >= 1 /\ tok < Len(Cur.chain)
    /\ acc.kind = "node" /\ Next1.kind = "name"
    /\ Next1.name \in DOMAIN bindings
    /\ LET e   == Marked(EdgeValue(acc.node, FALSE, FALSE, "", "", ""), Next1.op)
           dst == bindings[Next1.name]
       IN  /\ edges' = Append(edges, EdgeRecord(acc.node, dst, e))
           /\ Advance(ConnectResult(acc.node, dst))
    /\ UNCHANGED <<graph_attr, diagram, bindings, nodes, clusters,
                   clusterStack, in_cluster, subcluster, status,
                   renderAttempts, dotInstalled>>

\* A failed render that leaves the script at the end of the block to try again.
RenderFailRetry ==
    /\ Running /\ At("end_diagram")
    /\ ~dotInstalled
    /\ renderAttempts' = renderAttempts + 1
    /\ UNCHANGED <<pc, tok, acc, graph_attr, diagram, bindings, nodes,
                   clusters, clusterStack, in_cluster, subcluster, edges,
                   status, dotInstalled>>

\* the end of the Diagram block: the diagram is rendered; the layout engine
\* is there and the render completes
RenderOk ==
    /\ Running /\ At("end_diagram")
    /\ dotInstalled
    /\ renderAttempts' = renderAttempts + 1
    /\ status' = "rendered"
    /\ diagram' = [diagram EXCEPT !.open = FALSE]
    /\ pc' = pc + 1
    /\ UNCHANGED <<tok, acc, graph_attr, bindings, nodes, clusters,
                   clusterStack, in_cluster, subcluster, edges, dotInstalled>>

\* the end of the Diagram block: the layout engine is missing, the render
\* raises, and nothing in the script catches the exception
RenderFail ==
    /\ Running /\ At("end_diagram")
    /\ ~dotInstalled
    /\ renderAttempts' = renderAttempts + 1
    /\ status' = "error"
    /\ diagram' = [diagram EXCEPT !.open = FALSE]
    /\ pc' = pc + 1
    /\ UNCHANGED <<tok, acc, graph_attr, bindings, nodes, clusters,
                   clusterStack, in_cluster, subcluster, edges, dotInstalled>>

Next ==
    \/ AssignGraphAttr
    \/ EnterDiagram
    \/ ConstructNode
    \/ EnterCluster
    \/ ExitCluster
    \/ StartFlow
    \/ NodeToEdge
    \/ EdgeToNode
    \/ NodeToNode
    \/ RenderOk
    \/ RenderFail

Spec == Init /\ [][Next]_vars

-----------------------------------------------------------------------------
(* Properties.                                                             *)

\* The variable names that the data-flow statements of the script use.
FlowNames ==
    { s.chain[j].name : <<s, j>> \in
        { <<t, k>> \in Range(Program) \X (1..5) :
            t.kind = "flow" /\ k \in DOMAIN t.chain /\ t.chain[k].kind = "name" } }

\* Every statement of the given kinds has been executed.
Completed(kinds) ==
    \A i \in DOMAIN Program : Program[i].kind \in kinds => pc > i

NameOf(n) == CHOOSE name \in DOMAIN bindings : bindings[name] = n

NodeOwners(rel, n) == { c \in DOMAIN clusters : <<c, n>> \in rel }

OwnerLabels(n) == { clusters[c] : c \in NodeOwners(in_cluster, n) }

\* C1: referential integrity. In every state of the build and at render time,
\* every edge of the edge list has a source and a destination that are nodes
\* constructed in this diagram; while the data-flow statements run, every
\* node variable they use is bound to such a node.
C1_ReferentialIntegrity ==
    /\ \A i \in DOMAIN edges :
          edges[i].src \in DOMAIN nodes /\ edges[i].dst \in DOMAIN nodes
    /\ At("flow") =>
          \A name \in FlowNames :
              name \in DOMAIN bindings /\ bindings[name] \in DOMAIN nodes

\* C1 witness: the render step has run on an edge list that holds edges.
C1_Witness == renderAttempts = 1 /\ Len(edges) > 0

Compose(R, S) ==
    { <<r[1], t[2]>> : <<r, t>> \in { <<x, y>> \in R \X S : x[2] = y[1] } }

TransitiveClosure(R) ==
    LET n == Cardinality(R)
        f[k \in 0..n] == IF k = 0 THEN R ELSE f[k-1] \cup Compose(f[k-1], R)
    IN  f[n]

ExpectedSubclusters ==
    { <<"AWS Cloud", "Ingress Layer">>, <<"AWS Cloud", "VPC">>,
      <<"AWS Cloud", "Security Monitoring">>, <<"AWS Cloud", "Cloud Janitor">>,
      <<"VPC", "Private Subnet">> }

SubclusterLabels == { <<clusters[r[1]], clusters[r[2]]>> : r \in subcluster }

\* C2: cluster nesting is a tree. After any prefix of the build no node has
\* more than one cluster parent, no cluster has more than one parent cluster,
\* and no cluster is its own ancestor; the parent relation of the script is
\* AWS Cloud over Ingress Layer, VPC, Security Monitoring and Cloud Janitor,
\* and VPC over Private Subnet, complete once every cluster block is closed.
C2_ClusterTree ==
    /\ in_cluster \subseteq (DOMAIN clusters) \X (DOMAIN nodes)
    /\ subcluster \subseteq (DOMAIN clusters) \X (DOMAIN clusters)
    /\ \A n \in DOMAIN nodes : Cardinality(NodeOwners(in_cluster, n)) <= 1
    /\ \A c \in DOMAIN clusters : Cardinality(NodeOwners(subcluster, c)) <= 1
    /\ \A c \in DOMAIN clusters : <<c, c>> \notin TransitiveClosure(subcluster)
    /\ SubclusterLabels \subseteq ExpectedSubclusters
    /\ Completed({"with_cluster", "end_cluster"}) =>
          SubclusterLabels = ExpectedSubclusters

\* C2 witness: three cluster blocks are open inside one another (Private
\* Subnet in VPC in AWS Cloud) and a node has been constructed in the innermost.
C2_Witness ==
    /\ Len(clusterStack) = 3
    /\ \E n \in DOMAIN nodes : <<clusterStack[3], n>> \in in_cluster

\* C3: build-then-render ordering. The render step is started at most once,
\* and exactly once in a run that reaches the end of the script; when it has
\* been started, every node, cluster and edge construction statement has been
\* executed; no step after it changes the nodes, clusters, containment or edges.
C3_BuildThenRender ==
    /\ [](/\ renderAttempts <= 1
          /\ Done => renderAttempts = 1
          /\ renderAttempts >= 1 =>
                Completed({"node", "with_cluster", "end_cluster", "flow"}))
    /\ [][renderAttempts >= 1 => UNCHANGED graph]_vars

\* C3 witness: the script has ended with the diagram rendered.
C3_Witness == Done /\ status = "rendered" /\ renderAttempts = 1

\* C6: render failure is fail-fast and never retried. With the layout engine
\* missing the run ends in the error state after one render attempt; the
\* render step is never started a second time, and once in the error state
\* the run stays there and takes no further step.
C6_RenderFailFast ==
    /\ [](/\ renderAttempts <= 1
          /\ status = "error" => ~dotInstalled /\ renderAttempts = 1
          /\ (~dotInstalled /\ renderAttempts >= 1) => status = "error"
          /\ (~dotInstalled /\ Done) => status = "error")
    /\ [][status = "error" => UNCHANGED vars]_vars

\* C6 witness: the layout engine is missing and the run has ended in error.
C6_Witness == ~dotInstalled /\ status = "error" /\ Done

ExpectedOwner ==
    [ name \in FlowNames |->
        CASE name = "user" -> {}
          [] name = "external" -> {"AWS Cloud"}
          [] name \in {"waf", "cloudfront"} -> {"Ingress Layer"}
          [] name = "dns_fw" -> {"VPC"}
          [] name \in {"ec2", "docker", "iam", "secrets"} -> {"Private Subnet"}
          [] name \in {"inspector", "detective", "cloudwatch"} ->
                {"Security Monitoring"}
          [] name \in {"ssm", "eventbridge", "janitor_lambda"} ->
                {"Cloud Janitor"} ]

\* C9: node ownership is fixed at construction. A node constructed by a step
\* is owned by the innermost cluster block open at that step (by none if no
\* block is open); no step changes the cluster parent of a node that exists;
\* in every state each node variable of the script has the owner the script's
\* nesting gives it (user none, external AWS Cloud, dns_fw VPC, ...).
C9_OwnershipFixed ==
    /\ [](\A name \in DOMAIN bindings :
              /\ name \in DOMAIN ExpectedOwner
              /\ OwnerLabels(bindings[name]) = ExpectedOwner[name])
    /\ [][/\ \A n \in DOMAIN nodes :
                NodeOwners(in_cluster', n) = NodeOwners(in_cluster, n)
          /\ \A n \in (DOMAIN nodes') \ (DOMAIN nodes) :
                { c \in DOMAIN clusters' : <<c, n>> \in in_cluster' } =
                    IF clusterStack = <<>> THEN {}
                    ELSE {clusterStack[Len(clusterStack)]}]_vars

\* C9 witness: all 15 nodes exist and an edge joins two nodes of different
\* clusters.
C9_Witness ==
    /\ Cardinality(DOMAIN nodes) = 15
    /\ \E i \in DOMAIN edges :
          NodeOwners(in_cluster, edges[i].src) #
              NodeOwners(in_cluster, edges[i].dst)

\* An edge as it is drawn: the two nodes it joins, the nodes an arrowhead
\* points at, and its attributes.
EdgeView(e) ==
    [ends  |-> {NameOf(e.src), NameOf(e.dst)},
     heads |-> (IF e.forward THEN {NameOf(e.dst)} ELSE {}) \cup
               (IF e.reverse THEN {NameOf(e.src)} ELSE {}),
     label |-> e.label, style |-> e.style, color |-> e.color]

Arrow(a, b, label, style, color) ==
    [ends |-> {a, b}, heads |-> {b},
     label |-> label, style |-> style, color |-> color]

ExpectedEdges ==
    { Arrow("user", "waf", "HTTPS", "", ""),
      Arrow("waf", "cloudfront", "", "", ""),
      Arrow("cloudfront", "ec2", "", "", ""),
      Arrow("ec2", "docker", "spawn", "", ""),
      Arrow("ec2", "iam", "", "dotted", ""),
      Arrow("secrets", "ec2", "", "", "darkgreen"),
      Arrow("docker", "dns_fw", "", "", ""),
      Arrow("dns_fw", "external", "", "", ""),
      Arrow("ec2", "inspector", "", "dashed", "gray"),
      Arrow("ec2", "detective", "", "dashed", "gray"),
      Arrow("ec2", "cloudwatch", "", "dashed", "gray"),
      Arrow("eventbridge", "janitor_lambda", "", "", ""),
      Arrow("ssm", "ec2", "", "", "") }

EdgeViews == { EdgeView(edges[i]) : i \in DOMAIN edges }

\* C10: chained data-flow statements add one edge per consecutive node pair
\* and an Edge object's attributes apply to its own hop only. In every state
\* the edges built so far are distinct members of the 13 listed edges, and
\* once the data-flow statements are done the edge list holds exactly those
\* 13 edges over the 15 nodes.
C10_FlowEdges ==
    /\ EdgeViews \subseteq ExpectedEdges
    /\ Cardinality(EdgeViews) = Len(edges)
    /\ Completed({"flow"}) =>
          /\ Len(edges) = 13
          /\ EdgeViews = ExpectedEdges
          /\ Cardinality(DOMAIN nodes) = 15

\* C10 witness: the last data-flow statement is done, the render not started.
C10_Witness ==
    Completed({"flow"}) /\ Len(edges) = 13 /\ renderAttempts = 0

====
